---- MODULE Spec2Model ----
(***************************************************************************)
(* tape-monkey: the transport scheduler (TapeDeckEngine), its tracks       *)
(* (Track), the playback worklet's message handler (PlaybackProcessor),    *)
(* the statistics worker and the mixer (MixerEngine), as state machines.   *)
(*                                                                         *)
(* Times are kept in frames: a time of s seconds is the integer            *)
(* s * sampleRate.  Float32Arrays are sequences; frame i of an array is    *)
(* element i + 1.  The capture stream carries, at absolute frame f, the    *)
(* left sample f + 1 and the right sample -(f + 1), so that the place of   *)
(* every captured sample in a track buffer can be told from its value.     *)
(***************************************************************************)
EXTENDS Integers, Sequences, FiniteSets, TLC

(* ---------------------------- bounds ----------------------------------- *)

\* number of tracks and of mixer channels (16 in the program)
NumTracks == 2

\* frames in one capture block, which is also one step of the audio clock
BlockLen == 2

\* Math.round(0.050 * sampleRate): the fixed lead of a scheduled start
LeadFrames == 1

\* capture blocks after which the audio clock stops advancing
MaxBlocks == 2

\* transport commands whose worklet messages may be in flight at once
MaxInFlight == 1

(* --------------------------- constants --------------------------------- *)

\* null (recordingStartFrame), -1 (PlaybackProcessor.#startFrame)
Null == -1

\* Infinity and -Infinity of the dirty region
PosInfinity == 1000

NegInfinity == -1000

\* Track.#bufferLength: frames in a track buffer (five minutes in the program,
\* two capture blocks here)
BufferLength == 2 * BlockLen

\* the last value of the audio clock
MaxFrame == MaxBlocks * BlockLen

(* ---------------------------- helpers ---------------------------------- *)

Max(a, b) == IF a >= b THEN a ELSE b

Min(a, b) == IF a <= b THEN a ELSE b

TrackIds == 0 .. (NumTracks - 1)

\* TypedArray.prototype.subarray(begin, end), 0-based, clamped to the array
Subarray(a, begin, end) ==
  LET b == Min(Max(begin, 0), Len(a))
      e == Min(Max(end, 0), Len(a))
  IN  IF e <= b THEN << >> ELSE SubSeq(a, b + 1, e)

\* AudioBuffer.copyToChannel(source, channel, startInChannel) on one channel:
\* max(0, min(Nb - k, Nf)) frames are copied
CopyToChannel(channel, source, startInChannel) ==
  [i \in 1 .. Len(channel) |->
     IF i - 1 >= startInChannel /\ i - 1 < startInChannel + Len(source)
       THEN source[i - startInChannel]
       ELSE channel[i]]

\* the capture stream
LeftSample(f) == f + 1

RightSample(f) == 0 - (f + 1)

CaptureBlock(frameNumber) ==
  [left  |-> [i \in 1 .. BlockLen |-> LeftSample(frameNumber + i - 1)],
   right |-> [i \in 1 .. BlockLen |-> RightSample(frameNumber + i - 1)],
   frameNumber |-> frameNumber]

Silence == [i \in 1 .. BufferLength |-> 0]

(* ------------------------ the song (SongState) ------------------------- *)

NoSection == "undefined"

\* SongState.sections: name and length of each section (bar_count bars of
\* getBarDuration() seconds, in frames)
SongSections == << [name |-> "verse", frames |-> 2], [name |-> "chorus", frames |-> 1] >>

SectionNames == [i \in 1 .. Len(SongSections) |-> SongSections[i].name]

\* Array.prototype.indexOf, 0-based, -1 when absent
IndexOf(names, name) ==
  IF \E i \in 1 .. Len(names) : names[i] = name
    THEN (CHOOSE i \in 1 .. Len(names) :
            names[i] = name /\ \A j \in 1 .. (i - 1) : names[j] # name) - 1
    ELSE -1

RECURSIVE SumFrames(_, _, _)
SumFrames(sections, from, to) ==
  IF from > to THEN 0 ELSE sections[from].frames + SumFrames(sections, from + 1, to)

getSectionStartTime(sectionName) ==
  LET i == IndexOf(SectionNames, sectionName)
  IN  IF i = -1 THEN -1 ELSE SumFrames(SongSections, 1, i)

getSectionDuration(sectionName) ==
  LET i == IndexOf(SectionNames, sectionName)
  IN  IF i = -1 THEN -1 ELSE SongSections[i + 1].frames

RECURSIVE SumDurations(_, _, _)
SumDurations(names, from, to) ==
  IF from > to THEN 0
  ELSE getSectionDuration(names[from]) + SumDurations(names, from + 1, to)

NoInterval == [startTime |-> Null, endTime |-> Null]

\* TapeDeckEngine.#getSectionsTimeInterval; NoInterval stands for null
getSectionsTimeInterval(startSectionName, endSectionName) ==
  IF startSectionName = NoSection THEN NoInterval
  ELSE
    LET startIndex == IndexOf(SectionNames, startSectionName)
        endIndex == IF endSectionName # NoSection
                      THEN IndexOf(SectionNames, endSectionName)
                      ELSE startIndex
    IN  IF startIndex = -1 \/ endIndex = -1 \/ startIndex > endIndex
          THEN NoInterval
          ELSE
            LET minStartTime == getSectionStartTime(SectionNames[startIndex + 1])
            IN  IF minStartTime = -1 THEN NoInterval
                ELSE [startTime |-> minStartTime,
                      endTime |-> minStartTime
                                  + SumDurations(SectionNames, startIndex + 1, endIndex + 1)]

(* ---------------------------- the state -------------------------------- *)

VARIABLES
  currentFrame,         \* audioContext.currentTime * sampleRate
  nextBlockFrame,       \* frameNumber of the next capture block to arrive; the
                        \* first one starts anywhere within a step of the clock
  tracks,               \* TapeDeckEngine.#tracks: the Track objects
  activeTrack,          \* TapeDeckEngine.#activeTrack
  isRecording,          \* TapeDeckEngine.#isRecording
  recordingStartFrame,  \* TapeDeckEngine.#recordingStartFrame
  metronome,            \* MetronomeEngine: gain (in tenths) and posted startFrame
  params,               \* per track: the playback node's AudioParams
  audioQueue,           \* messages posted to the playback worklets, in flight
  processors,           \* per track: the PlaybackProcessor's fields
  workerQueue,          \* per track: requests posted to the stats worker, in flight
  workerReplies,        \* per track: replies of the stats worker, in flight
  channels,             \* MixerEngine.#channels
  toolHandlers,         \* MainController.#toolHandlers: per handler, the tool
                        \* names its canHandle accepts
  handlerCalls,         \* the calls MainController.callTool last made on its
                        \* handlers, in order
  saturatorCurve,       \* the curve of the WaveShaperNode of the Saturator last
                        \* constructed
  songState,            \* SongState: #title, #bpm, #beatsPerBar, #sections
  textArea,             \* SongUI.#textArea.value, as its lines
  lastCall              \* the last call made: its name, whether it threw or logged

deckVars == << currentFrame, nextBlockFrame, tracks, activeTrack, isRecording,
               recordingStartFrame, metronome, params, audioQueue, processors,
               workerQueue, workerReplies >>

mixerVars == << channels >>

controllerVars == << toolHandlers, handlerCalls >>

sheetVars == << saturatorCurve, songState, textArea >>

vars == << currentFrame, nextBlockFrame, tracks, activeTrack, isRecording,
           recordingStartFrame, metronome, params, audioQueue, processors,
           workerQueue, workerReplies, channels,
                  controllerVars, sheetVars, lastCall >>

Call(name, threw, logged) == [name |-> name, threw |-> threw, logged |-> logged]

(* ------------------------------ Track ---------------------------------- *)

\* the statistics a freshly constructed Track holds
InitialStats ==
  [peakLeft |-> NegInfinity, peakRight |-> NegInfinity,
   sumSqLeft |-> NegInfinity, sumSqRight |-> NegInfinity,
   crossSum |-> 0, n |-> 0]

\* new Track(audioContext)
NewTrack ==
  [left |-> Silence, right |-> Silence,
   statsMinFrame |-> PosInfinity, statsMaxFrame |-> NegInfinity,
   statsPromiseResolver |-> Null, requestsPosted |-> 0,
   stats |-> InitialStats]

\* a variant of Track.write without the test for a negative startFrame
TrackWriteUnchecked(track, leftData, rightData, startFrame) ==
  [track EXCEPT
     !.left = CopyToChannel(track.left, leftData, startFrame),
     !.right = CopyToChannel(track.right, rightData, startFrame),
     !.statsMinFrame = Min(track.statsMinFrame, startFrame),
     !.statsMaxFrame = Max(track.statsMaxFrame, startFrame + Len(leftData))]

\* a variant of Track.write that drops a block that does not fit
TrackWriteAllOrNothing(track, leftData, rightData, startFrame) ==
  IF startFrame < 0 \/ startFrame + Len(leftData) > BufferLength THEN track
  ELSE [track EXCEPT
          !.left = CopyToChannel(track.left, leftData, startFrame),
          !.right = CopyToChannel(track.right, rightData, startFrame),
          !.statsMinFrame = Min(track.statsMinFrame, startFrame),
          !.statsMaxFrame = Max(track.statsMaxFrame, startFrame + Len(leftData))]

\* Track.write(leftData, rightData, startFrame): the Track after the call
TrackWrite(track, leftData, rightData, startFrame) ==
  IF startFrame < 0 THEN track
  ELSE
    LET endFrame == startFrame + Len(leftData)
        framesToWrite == BufferLength - startFrame
        dirty == [track EXCEPT
                    !.statsMinFrame = Min(track.statsMinFrame, startFrame),
                    !.statsMaxFrame = Max(track.statsMaxFrame, endFrame)]
    IN  IF endFrame > BufferLength
          THEN IF framesToWrite <= 0 THEN track
               ELSE [dirty EXCEPT
                       !.left = CopyToChannel(track.left,
                                  Subarray(leftData, 0, framesToWrite), startFrame),
                       !.right = CopyToChannel(track.right,
                                  Subarray(rightData, 0, framesToWrite), startFrame)]
          ELSE [dirty EXCEPT
                  !.left = CopyToChannel(track.left, leftData, startFrame),
                  !.right = CopyToChannel(track.right, rightData, startFrame)]

\* whether Track.write logs a warning
TrackWriteWarns(leftData, startFrame) ==
  startFrame < 0 \/ startFrame + Len(leftData) > BufferLength

\* Track.update(): the message posted to the playback worklet
UpdateMessage(t, track) ==
  [track |-> t, type |-> "set_buffers", left |-> track.left, right |-> track.right,
   startFrame |-> Null, loop |-> FALSE]

\* Track.play(...): the message posted to the playback worklet
StartMessage(t, startFrame, loop) ==
  [track |-> t, type |-> "start", left |-> << >>, right |-> << >>,
   startFrame |-> startFrame, loop |-> loop]

\* Track.stop(): the message posted to the playback worklet
StopMessage(t) ==
  [track |-> t, type |-> "stop", left |-> << >>, right |-> << >>,
   startFrame |-> Null, loop |-> FALSE]

\* a variant of Track.getStats that posts a request whatever the dirty region
GetStatsPostsAlways(track) == TRUE

\* Track.getStats(): whether the call posts a request to the worker
GetStatsPosts(track) ==
  /\ ~(track.statsMinFrame > track.statsMaxFrame)
  /\ track.statsMaxFrame - track.statsMinFrame > 0

\* Track.getStats(): the request posted to the worker
StatsRequest(track) ==
  [id |-> track.requestsPosted + 1,
   left |-> Subarray(track.left, track.statsMinFrame, track.statsMaxFrame),
   right |-> Subarray(track.right, track.statsMinFrame, track.statsMaxFrame)]

\* Track.getStats(): the Track after the call
TrackGetStats(track) ==
  IF GetStatsPosts(track)
    THEN [track EXCEPT !.statsMinFrame = PosInfinity,
                       !.statsMaxFrame = NegInfinity,
                       !.statsPromiseResolver = track.requestsPosted + 1,
                       !.requestsPosted = track.requestsPosted + 1]
    ELSE track

(* ------------------------- statistics worker --------------------------- *)

Abs(x) == IF x < 0 THEN 0 - x ELSE x

RECURSIVE SumOfSquares(_)
SumOfSquares(buffer) ==
  IF buffer = << >> THEN 0
  ELSE Head(buffer) * Head(buffer) + SumOfSquares(Tail(buffer))

RECURSIVE calculateTruePeak(_)
calculateTruePeak(buffer) ==
  IF buffer = << >> THEN 0
  ELSE Max(Abs(Head(buffer)), calculateTruePeak(Tail(buffer)))

RECURSIVE CrossCorrelationSum(_, _)
CrossCorrelationSum(leftBuffer, rightBuffer) ==
  IF leftBuffer = << >> \/ rightBuffer = << >> THEN 0
  ELSE Head(leftBuffer) * Head(rightBuffer)
       + CrossCorrelationSum(Tail(leftBuffer), Tail(rightBuffer))

\* the grid linear amplitudes are kept on: the integer v stands for the
\* amplitude v / AmplitudeUnit, and a sample s for the amplitude s
AmplitudeUnit == 10

\* Math.sqrt, to the grid point below
sqrt(q) == CHOOSE r \in 0 .. q : r * r <= q /\ (r + 1) * (r + 1) > q

\* calculateRms(buffer), on the grid
calculateRms(buffer) ==
  IF Len(buffer) = 0 THEN 0
  ELSE sqrt((SumOfSquares(buffer) * AmplitudeUnit * AmplitudeUnit) \div Len(buffer))

\* Math.log10 of the fraction n / d (n >= 0, d > 0), to the whole decade
\* below, which is exact on the powers of ten; -Infinity for 0
RECURSIVE log10(_, _)
log10(n, d) ==
  IF n = 0 THEN NegInfinity
  ELSE IF n >= 10 * d THEN log10(n, 10 * d) + 1
  ELSE IF n < d THEN log10(10 * n, d) - 1
  ELSE 0

\* a variant of linearToDb that keeps the floor for negative amplitudes only
linearToDbBelowZero(linearAmplitude) ==
  IF linearAmplitude < 0 THEN -120
  ELSE 20 * log10(linearAmplitude, AmplitudeUnit)

\* linearToDb(linearAmplitude), of an amplitude on the grid
linearToDb(linearAmplitude) ==
  IF linearAmplitude <= 0 THEN -120
  ELSE 20 * log10(linearAmplitude, AmplitudeUnit)

\* self.onmessage of the worker: the message it posts
statsMessage(left, right) ==
  [rmsLeftDb |-> linearToDb(calculateRms(left)),
   peakLeftDb |-> linearToDb(calculateTruePeak(left) * AmplitudeUnit),
   rmsRightDb |-> linearToDb(calculateRms(right)),
   peakRightDb |-> linearToDb(calculateTruePeak(right) * AmplitudeUnit)]

\* self.onmessage of the worker: the reply to a request (the message posted,
\* the sums the five statistics are computed from, and the number of frames
\* they are divided by)
WorkerReply(request) ==
  [id |-> request.id,
   message |-> statsMessage(request.left, request.right),
   stats |-> [peakLeft |-> calculateTruePeak(request.left),
              peakRight |-> calculateTruePeak(request.right),
              sumSqLeft |-> SumOfSquares(request.left),
              sumSqRight |-> SumOfSquares(request.right),
              crossSum |-> IF Len(request.left) = 0
                              \/ Len(request.left) # Len(request.right)
                             THEN 0
                             ELSE CrossCorrelationSum(request.left, request.right),
              n |-> Len(request.left)]]

\* Track.#handleStatsWorkerMessage(event): the Track after the call
TrackHandleStatsWorkerMessage(track, reply) ==
  [track EXCEPT !.stats = reply.stats, !.statsPromiseResolver = Null]

(* ------------------------- PlaybackProcessor --------------------------- *)

NewProcessor ==
  [leftBuffer |-> << >>, rightBuffer |-> << >>, startFrame |-> -1, playheadFrame |-> 0]

\* PlaybackProcessor.#handleMessage(event): the processor after the call
ProcessorHandleMessage(processor, msg) ==
  IF msg.type = "set_buffers"
    THEN [processor EXCEPT !.leftBuffer = msg.left, !.rightBuffer = msg.right]
  ELSE IF msg.type = "start"
    THEN [processor EXCEPT !.startFrame = msg.startFrame, !.playheadFrame = 0]
  ELSE processor

\* process(): the loop region, clamped to the buffer
effectiveLoopStart(processor, param) ==
  Max(0, Min(param.loopStart, Len(processor.leftBuffer)))

loopEndFrame(processor, param) ==
  IF param.loopDuration > 0
    THEN param.loopStart + param.loopDuration
    ELSE Len(processor.leftBuffer)

effectiveLoopEnd(processor, param) ==
  Max(effectiveLoopStart(processor, param),
      Min(loopEndFrame(processor, param), Len(processor.leftBuffer)))

effectiveLoopDuration(processor, param) ==
  effectiveLoopEnd(processor, param) - effectiveLoopStart(processor, param)

\* process(): whether the call gets past its early returns, in the render
\* quantum that begins at frame
processRenders(processor, param, frame) ==
  /\ ~(processor.startFrame = -1 \/ Len(processor.leftBuffer) = 0)
  /\ ~(frame < processor.startFrame)
  /\ ~(effectiveLoopDuration(processor, param) <= 0)

\* process(): the buffer frame read for output frame i (0-based) of the quantum
bufferFrameIndex(processor, param, i) ==
  effectiveLoopStart(processor, param)
  + ((processor.playheadFrame + i) % effectiveLoopDuration(processor, param))

\* process(): the left output channel of the quantum (the output arrives
\* zero-filled)
processOutput(processor, param, frame) ==
  [i \in 1 .. BlockLen |->
     IF processRenders(processor, param, frame)
       THEN processor.leftBuffer[bufferFrameIndex(processor, param, i - 1) + 1]
       ELSE 0]

\* process(): the processor after the call
process(processor, param, frame) ==
  IF processRenders(processor, param, frame)
    THEN [processor EXCEPT !.playheadFrame = @ + BlockLen]
    ELSE processor

(* ------------------------------ Mixer ---------------------------------- *)

ChannelIds == 0 .. (NumTracks - 1)

\* new Channel(audioContext); muteLevel is #muteNode.gain.value
NewChannel ==
  [gainDB |-> 0, levelDB |-> 0, pan |-> 0, inputIsMono |-> FALSE,
   mute |-> FALSE, solo |-> FALSE, muteLevel |-> 1]

\* an optional argument: << >> when the caller leaves it out, << v >> otherwise
Given(x) == x # << >>

\* a variant of #updateSoloStates that silences a channel with its fader
updateSoloStatesViaFader(chs) ==
  LET anySolo == \E c \in DOMAIN chs : chs[c].solo
  IN  [c \in DOMAIN chs |->
         IF (anySolo /\ chs[c].solo) \/ (~anySolo /\ chs[c].mute)
           THEN [chs[c] EXCEPT !.muteLevel = 0, !.levelDB = -120]
           ELSE [chs[c] EXCEPT !.muteLevel = 1]]

\* a variant of #updateSoloStates that closes mute gates and never opens one
updateSoloStatesClosingOnly(chs) ==
  LET anySolo == \E c \in DOMAIN chs : chs[c].solo
  IN  [c \in DOMAIN chs |->
         IF (anySolo /\ chs[c].solo) \/ (~anySolo /\ chs[c].mute)
           THEN [chs[c] EXCEPT !.muteLevel = 0]
           ELSE chs[c]]

\* MixerEngine.#updateSoloStates(): #channels after the call
updateSoloStates(chs) ==
  LET anySolo == \E c \in DOMAIN chs : chs[c].solo
  IN  [c \in DOMAIN chs |->
         [chs[c] EXCEPT !.muteLevel =
            IF anySolo
              THEN (IF ~chs[c].solo THEN 1 ELSE 0)
              ELSE (IF chs[c].mute THEN 0 ELSE 1)]]

\* a variant of the invalid-channel test that takes channel for the index
InvalidChannelOffByOne(chs, args) ==
  args.channel < 0 \/ args.channel >= Cardinality(DOMAIN chs)

\* the invalid-channel test of MixerEngine.callTool
InvalidChannel(chs, args) ==
  args.channel - 1 < 0 \/ args.channel - 1 >= Cardinality(DOMAIN chs)

\* the keys of the optional arguments of update_mixer_channel
MixerKeys == {"gainDB", "levelDB", "inputIsMono", "pan", "mute", "solo"}

\* MixerEngine.callTool: #channels[channelIndex] is undefined and a setter is
\* called on it, which throws before anything has changed
mixerThrows(chs, args) ==
  /\ ~InvalidChannel(chs, args)
  /\ args.channel - 1 \notin DOMAIN chs
  /\ \E k \in MixerKeys : Given(args[k])

\* MixerEngine.callTool('update_mixer_channel', args): #channels after the call
mixerCallTool(chs, args) ==
  IF InvalidChannel(chs, args) \/ mixerThrows(chs, args) THEN chs
  ELSE
    LET i == args.channel - 1
        c1 == IF Given(args.gainDB)
                THEN [chs EXCEPT ![i].gainDB = args.gainDB[1]] ELSE chs
        c2 == IF Given(args.levelDB)
                THEN [c1 EXCEPT ![i].levelDB = args.levelDB[1]] ELSE c1
        c3 == IF Given(args.inputIsMono)
                THEN [c2 EXCEPT ![i].inputIsMono = args.inputIsMono[1]] ELSE c2
        c4 == IF Given(args.pan)
                THEN [c3 EXCEPT ![i].pan = args.pan[1]] ELSE c3
        c5 == IF Given(args.mute)
                THEN updateSoloStates([c4 EXCEPT ![i].mute = args.mute[1]]) ELSE c4
        c6 == IF Given(args.solo)
                THEN updateSoloStates([c5 EXCEPT ![i].solo = args.solo[1]]) ELSE c5
    IN  c6

(* -------------------------- MainController ----------------------------- *)

\* handlers one MainController may be given
MaxHandlers == 3

\* the tool names tried: two that handlers may accept and one none accepts
ToolNames == {"arm", "update_mixer_channel", "fly"}

\* the lists of handlers a MainController is constructed with; a handler is
\* the set of tool names its canHandle returns true for
HandlerLists ==
  UNION { [1 .. n -> SUBSET {"arm", "update_mixer_channel"}] : n \in 0 .. MaxHandlers }

\* the handlers of the states the engines start in: the engines are driven
\* directly, and no MainController stands before them
InitialHandlers == { << >> }

HandlerCall(i, method) == [handler |-> i, method |-> method]

\* an object in the list that has no canHandle method: told apart from every
\* handler by a member that is no tool name
NoCanHandle == { "canHandle is undefined" }

\* a variant of the loop of callTool that goes on after a handler has accepted
RECURSIVE dispatchAllFrom(_, _, _)
dispatchAllFrom(handlers, toolName, i) ==
  IF i > Len(handlers) THEN << >>
  ELSE IF handlers[i] = NoCanHandle THEN << >>
  ELSE IF toolName \in handlers[i]
    THEN << HandlerCall(i, "canHandle"), HandlerCall(i, "callTool") >>
         \o dispatchAllFrom(handlers, toolName, i + 1)
  ELSE << HandlerCall(i, "canHandle") >> \o dispatchAllFrom(handlers, toolName, i + 1)

\* MainController.callTool: the calls made on the handlers from handler i on;
\* handler.canHandle(toolName) on an object without the method throws a
\* TypeError, which ends the loop
RECURSIVE dispatchFrom(_, _, _)
dispatchFrom(handlers, toolName, i) ==
  IF i > Len(handlers) THEN << >>
  ELSE IF handlers[i] = NoCanHandle THEN << >>
  ELSE IF toolName \in handlers[i]
    THEN << HandlerCall(i, "canHandle"), HandlerCall(i, "callTool") >>
  ELSE << HandlerCall(i, "canHandle") >> \o dispatchFrom(handlers, toolName, i + 1)

\* MainController.callTool throws the TypeError: the loop comes to an object
\* without canHandle before a handler has accepted
callToolThrows(handlers, toolName) ==
  \E i \in 1 .. Len(handlers) :
    /\ handlers[i] = NoCanHandle
    /\ \A j \in 1 .. (i - 1) : handlers[j] # NoCanHandle /\ toolName \notin handlers[j]

\* MainController.callTool reaches its console.error
callToolLogsError(handlers, toolName) ==
  /\ ~callToolThrows(handlers, toolName)
  /\ \A k \in 1 .. Len(dispatchFrom(handlers, toolName, 1)) :
       dispatchFrom(handlers, toolName, 1)[k].method # "callTool"

(* ----------------------------- Saturator ------------------------------- *)

\* the grid the values of a curve are kept on: the integer v stands for the
\* sample v / TanhUnit
TanhUnit == 100

\* Math.tanh of the fraction n / d (n >= 0, d > 0), on the grid: the Pade
\* approximant v (27 + v^2) / (27 + 9 v^2) below 3, rounded to the nearest
\* grid point, and 1 from 3 on
tanhOfMagnitude(n, d) ==
  IF n >= 3 * d THEN TanhUnit
  ELSE LET a == n * (27 * d * d + n * n)
           b == d * (27 * d * d + 9 * n * n)
       IN  (2 * TanhUnit * a + b) \div (2 * b)

\* Math.tanh of the fraction n / d (d > 0): the sign is taken off the argument
\* and put back on the result
tanh(n, d) == IF n < 0 THEN 0 - tanhOfMagnitude(0 - n, d) ELSE tanhOfMagnitude(n, d)

\* a variant of #createCurve that maps index i to (i * 2) / curveSize - 1
createCurveOverSize(positiveSamples, slopeAtZero) ==
  LET curveSize == 2 * positiveSamples + 1
      k == slopeAtZero
  IN  [j \in 1 .. curveSize |-> tanh(k * ((j - 1) * 2 - curveSize), curveSize)]

\* Saturator.#createCurve(positiveSamples, slopeAtZero): curveData; index i
\* is element i + 1, and x = (i * 2) / (curveSize - 1) - 1 is the fraction
\* (i * 2 - (curveSize - 1)) / (curveSize - 1)
createCurve(positiveSamples, slopeAtZero) ==
  LET curveSize == 2 * positiveSamples + 1
      k == slopeAtZero
  IN  [j \in 1 .. curveSize |->
         tanh(k * ((j - 1) * 2 - (curveSize - 1)), curveSize - 1)]

(* ------------------------ SongState and SongUI ------------------------- *)

(* A string without a line break is the sequence of its characters, a number *)
(* in a text the sequence of its decimal digits, and a text the sequence of  *)
(* the lines text.split('\n') yields (so the empty text is one empty line).  *)
(* A line is told apart by the regular expression it matches.                *)

\* a line that matches neither regular expression
TextLine(chars) == [kind |-> "text", chars |-> chars]

EmptyLine == TextLine(<< >>)

\* a line that matches titleHeaderRegex: '#', the characters up to '(', the
\* digits before 'BPM', and the digits on either side of '/'
TitleLine(chars, bpm, beats, unit) ==
  [kind |-> "title", chars |-> chars, bpm |-> bpm, beats |-> beats, unit |-> unit]

\* a line that matches sectionHeaderRegex: '[', the characters up to ',', and
\* the digits after 'Bars:'
SectionLine(chars, bars) == [kind |-> "section", chars |-> chars, bars |-> bars]

\* String.prototype.trim
RECURSIVE trimStart(_)
trimStart(chars) ==
  IF chars # << >> /\ Head(chars) = " " THEN trimStart(Tail(chars)) ELSE chars

RECURSIVE trimEnd(_)
trimEnd(chars) ==
  IF chars # << >> /\ chars[Len(chars)] = " "
    THEN trimEnd(SubSeq(chars, 1, Len(chars) - 1))
    ELSE chars

trimString(chars) == trimEnd(trimStart(chars))

\* parseInt(digits, 10)
RECURSIVE parseInt(_)
parseInt(digits) ==
  IF digits = << >> THEN 0
  ELSE 10 * parseInt(SubSeq(digits, 1, Len(digits) - 1)) + digits[Len(digits)]

\* `${n}` for a number n >= 0
RECURSIVE numberToString(_)
numberToString(n) ==
  IF n < 10 THEN << n >> ELSE numberToString(n \div 10) \o << n % 10 >>

\* Array.prototype.join('\n') of lines, as the lines of the string it yields
join(lines) == IF lines = << >> THEN << EmptyLine >> ELSE lines

\* null, for #title
NoTitle == << "null" >>

\* new SongState()
NewSongState ==
  [title |-> NoTitle, bpm |-> Null, beatsPerBar |-> Null, sections |-> << >>]

\* null, for currentSection
NoCurrentSection == [name |-> << >>, bar_count |-> Null, body |-> << >>]

\* parse: newSections once the section being read, if any, is pushed
pushSection(newSections, currentSection, currentSectionBodyLines) ==
  IF currentSection # NoCurrentSection
    THEN Append(newSections,
                [currentSection EXCEPT !.body = join(currentSectionBodyLines)])
    ELSE newSections

\* parse: the loop over lines[i] for i >= 1 (line i is element i + 1) and the
\* push that follows it
RECURSIVE parseLines(_, _, _, _, _)
parseLines(lines, j, newSections, currentSection, currentSectionBodyLines) ==
  IF j > Len(lines)
    THEN [error |-> FALSE,
          sections |-> pushSection(newSections, currentSection,
                                   currentSectionBodyLines)]
  ELSE IF lines[j].kind = "section"
    THEN parseLines(lines, j + 1,
                    pushSection(newSections, currentSection, currentSectionBodyLines),
                    [name |-> trimString(lines[j].chars),
                     bar_count |-> parseInt(lines[j].bars), body |-> << >>],
                    << >>)
  ELSE IF currentSection # NoCurrentSection
    THEN parseLines(lines, j + 1, newSections, currentSection,
                    Append(currentSectionBodyLines, lines[j]))
  ELSE IF lines[j] = EmptyLine
    THEN parseLines(lines, j + 1, newSections, currentSection,
                    currentSectionBodyLines)
  ELSE [error |-> TRUE, sections |-> << >>]

\* SongState.parse(text): whether a SongParseError is returned, and the
\* SongState after the call
parse(state, text) ==
  IF text[1].kind # "title" THEN [error |-> TRUE, state |-> state]
  ELSE
    LET rest == parseLines(text, 2, << >>, NoCurrentSection, << >>)
    IN  IF rest.error THEN [error |-> TRUE, state |-> state]
        ELSE [error |-> FALSE,
              state |-> [title |-> trimString(text[1].chars),
                         bpm |-> parseInt(text[1].bpm),
                         beatsPerBar |-> parseInt(text[1].beats),
                         sections |-> rest.sections]]

\* serialize: the lines the loop over #sections adds, from section k on; the
\* header of a section with an empty name, '[, Bars: n]', is a line that
\* sectionHeaderRegex does not match, as it asks for a character before ','
RECURSIVE serializeSections(_, _)
serializeSections(sections, k) ==
  IF k > Len(sections) THEN << >>
  ELSE << (IF sections[k].name = << >>
             THEN TextLine(<< "[" >>)
             ELSE SectionLine(sections[k].name,
                              numberToString(sections[k].bar_count))) >>
       \o sections[k].body
       \o serializeSections(sections, k + 1)

\* SongState.serialize(): the text; every piece added ends with a line break,
\* so the text ends with an empty line
serialize(state) ==
  IF state.title = NoTitle \/ state.bpm = Null \/ state.beatsPerBar = Null
    THEN << EmptyLine >>
  ELSE << TitleLine(<< " " >> \o state.title \o << " " >>,
                    numberToString(state.bpm),
                    numberToString(state.beatsPerBar), << 4 >>),
          EmptyLine >>
       \o serializeSections(state.sections, 1)
       \o << EmptyLine >>

(* ------------------------------- Init ---------------------------------- *)

EngineInit ==
  /\ currentFrame = 0
  /\ nextBlockFrame \in 0 .. (BlockLen - 1)
  /\ tracks = [t \in TrackIds |-> NewTrack]
  /\ activeTrack = 0
  /\ isRecording = FALSE
  /\ recordingStartFrame = Null
  /\ metronome = [gain |-> 0, startFrame |-> Null]
  /\ params = [t \in TrackIds |-> [loopStart |-> 0, loopDuration |-> 0]]
  /\ audioQueue = << >>
  /\ processors = [t \in TrackIds |-> NewProcessor]
  /\ workerQueue = [t \in TrackIds |-> << >>]
  /\ workerReplies = [t \in TrackIds |-> << >>]
  /\ channels = [c \in ChannelIds |-> NewChannel]
  /\ lastCall = Call("init", FALSE, FALSE)
  /\ handlerCalls = << >>
  /\ saturatorCurve = << >>
  /\ songState = NewSongState
  /\ textArea = serialize(NewSongState)

Init == EngineInit /\ toolHandlers \in InitialHandlers

(* -------------------------- TapeDeckEngine ----------------------------- *)

\* tracks[activeTrack] is undefined, so that calling a method on it throws
NoSuchTrack(active) == active \notin TrackIds

\* a variant of the guards that discards no block of a recording
BlockIsWrittenWhileRecording(recording, recStart, block) ==
  recording /\ recStart # Null

\* a variant of the guards that looks at the block's frames only
BlockIsWrittenUnguarded(recording, recStart, block) ==
  ~(block.frameNumber + Len(block.left) < recStart)

\* the guard of port.onmessage and the early returns of #handleWorkletMessage:
\* whether the block reaches the write
BlockIsWritten(recording, recStart, block) ==
  /\ recording
  /\ ~(~recording \/ recStart = Null)
  /\ ~(block.frameNumber + Len(block.left) < recStart)

writeStartFrameInMessage(recStart, block) == Max(0, recStart - block.frameNumber)

\* a variant of the track offset that counts from recordingStartFrame only
trackStartFrameSinceStart(recStart, block) == Max(0, block.frameNumber - recStart)

trackStartFrame(recStart, block) ==
  Max(0, block.frameNumber - recStart) + writeStartFrameInMessage(recStart, block)

\* port.onmessage and #handleWorkletMessage(event): #tracks after the call
\* (the call throws, and changes nothing, when NoSuchTrack(active))
handleWorkletMessage(trks, active, recording, recStart, block) ==
  IF BlockIsWritten(recording, recStart, block) /\ ~NoSuchTrack(active)
    THEN [trks EXCEPT ![active] =
            TrackWrite(trks[active],
              Subarray(block.left, writeStartFrameInMessage(recStart, block),
                       Len(block.left)),
              Subarray(block.right, writeStartFrameInMessage(recStart, block),
                       Len(block.left)),
              trackStartFrame(recStart, block))]
    ELSE trks

\* the capture worklet delivers its next block
WorkletMessage ==
  /\ nextBlockFrame + BlockLen <= currentFrame
  /\ LET block == CaptureBlock(nextBlockFrame)
         written == BlockIsWritten(isRecording, recordingStartFrame, block)
     IN  /\ tracks' = handleWorkletMessage(tracks, activeTrack, isRecording,
                                           recordingStartFrame, block)
         /\ lastCall' =
              Call("block", written /\ NoSuchTrack(activeTrack),
                   /\ written
                   /\ ~NoSuchTrack(activeTrack)
                   /\ TrackWriteWarns(
                        Subarray(block.left,
                                 writeStartFrameInMessage(recordingStartFrame, block),
                                 Len(block.left)),
                        trackStartFrame(recordingStartFrame, block)))
  /\ nextBlockFrame' = nextBlockFrame + BlockLen
  /\ UNCHANGED << currentFrame, activeTrack, isRecording, recordingStartFrame,
                  metronome, params, audioQueue, processors, workerQueue,
                  workerReplies, channels,
                  controllerVars, sheetVars >>

\* the audio thread renders one quantum: every playback worklet's process()
\* runs with the clock at the quantum's first frame, and the clock advances
Tick ==
  /\ currentFrame < MaxFrame
  /\ processors' = [t \in TrackIds |-> process(processors[t], params[t], currentFrame)]
  /\ currentFrame' = currentFrame + BlockLen
  /\ UNCHANGED << nextBlockFrame, tracks, activeTrack, isRecording,
                  recordingStartFrame, metronome, params, audioQueue,
                  workerQueue, workerReplies, channels,
                  controllerVars, sheetVars, lastCall >>

\* #arm(trackNumber): #activeTrack after the call
arm(active, trackNumber) == trackNumber - 1

Arm(trackNumber) ==
  /\ activeTrack' = arm(activeTrack, trackNumber)
  /\ lastCall' = Call("arm", FALSE, FALSE)
  /\ UNCHANGED << currentFrame, nextBlockFrame, tracks, isRecording,
                  recordingStartFrame, metronome, params, audioQueue, processors,
                  workerQueue, workerReplies, channels,
                  controllerVars, sheetVars >>

\* messages one transport command may post, and the room for them
QueueCap == MaxInFlight * (NumTracks + 1)

HasRoom == Len(audioQueue) + NumTracks + 1 <= QueueCap

\* the messages posted by #play's loop over all tracks, in track order
StartMessages(startFrame, loop) ==
  [i \in 1 .. NumTracks |-> StartMessage(i - 1, startFrame, loop)]

\* the messages posted by stop()'s loop over all tracks, in track order
StopMessages == [i \in 1 .. NumTracks |-> StopMessage(i - 1)]

\* MetronomeEngine.start(): the metronome after the call
metronomeStart(m) ==
  [gain |-> IF m.gain = 0 THEN 5 ELSE m.gain, startFrame |-> currentFrame]

\* MetronomeEngine.stop(): the metronome after the call
metronomeStop(m) == [m EXCEPT !.gain = 0]

\* #play: the frame playback is scheduled at
playStartFrame == currentFrame + LeadFrames

\* #play: the interval handed to the tracks
tapeInterval(startSection, lastSection) ==
  IF getSectionsTimeInterval(startSection, lastSection) = NoInterval
    THEN [startTime |-> 0, endTime |-> Null]
    ELSE getSectionsTimeInterval(startSection, lastSection)

\* Track.play: the AudioParams after the call (null - x is -x, null - 0 is 0;
\* an AudioParam keeps its value within [minValue, maxValue])
playParams(interval) ==
  [loopStart |-> Max(0, interval.startTime),
   loopDuration |-> IF interval.endTime = Null
                      THEN Max(0, 0 - interval.startTime)
                      ELSE Max(0, interval.endTime - interval.startTime)]

\* the effects of #play(startSection, lastSection, loop)
PlayEffects(startSection, lastSection, loop) ==
  /\ metronome' = metronomeStart(metronome)
  /\ params' = [t \in TrackIds |-> playParams(tapeInterval(startSection, lastSection))]
  /\ audioQueue' = audioQueue \o StartMessages(playStartFrame, loop)

Play(startSection, lastSection, loop) ==
  /\ HasRoom
  /\ PlayEffects(startSection, lastSection, loop)
  /\ lastCall' = Call("play", FALSE,
                      startSection # NoSection
                      /\ getSectionsTimeInterval(startSection, lastSection) = NoInterval)
  /\ UNCHANGED << currentFrame, nextBlockFrame, tracks, activeTrack, isRecording,
                  recordingStartFrame, processors, workerQueue, workerReplies,
                  channels,
                  controllerVars, sheetVars >>

\* a variant of startRecording() without the lead
startRecordingFrameNoLead == currentFrame

\* a variant of startRecording() that schedules no start frame
startRecordingFrameUnset == Null

\* startRecording(): #recordingStartFrame after the call
startRecordingFrame == currentFrame + LeadFrames

Record(startSection, lastSection) ==
  /\ HasRoom
  /\ PlayEffects(startSection, lastSection, FALSE)
  /\ recordingStartFrame' = startRecordingFrame
  /\ isRecording' = TRUE
  /\ lastCall' = Call("record", FALSE,
                      startSection # NoSection
                      /\ getSectionsTimeInterval(startSection, lastSection) = NoInterval)
  /\ UNCHANGED << currentFrame, nextBlockFrame, tracks, activeTrack, processors,
                  workerQueue, workerReplies, channels,
                  controllerVars, sheetVars >>

\* Track.setLatencyCompensation(seconds): the AudioParams after the call; the
\* playback worklet declares no latencyCompensation parameter, so the lookup
\* yields undefined and nothing is set
trackSetLatencyCompensation(param, seconds) == param

\* #setLatencyCompensation(seconds)
SetLatencyCompensation(seconds) ==
  /\ params' = [t \in TrackIds |-> trackSetLatencyCompensation(params[t], seconds)]
  /\ lastCall' = Call("set_latency_compensation", FALSE, FALSE)
  /\ UNCHANGED << currentFrame, nextBlockFrame, tracks, activeTrack, isRecording,
                  recordingStartFrame, metronome, audioQueue, processors,
                  workerQueue, workerReplies, channels,
                  controllerVars, sheetVars >>

\* a variant of stop() that looks up the armed track before it looks at
\* #isRecording
stopThrowsUnguarded(recording, active) == NoSuchTrack(active)

\* stop() throws at activeTrack.update(), before it has changed anything
stopThrows(recording, active) == recording /\ NoSuchTrack(active)

\* a variant of stop() that also arms the first track again
StopDisarms ==
  /\ HasRoom
  /\ ~stopThrows(isRecording, activeTrack)
  /\ lastCall' = Call("stop", FALSE, FALSE)
  /\ activeTrack' = 0
  /\ tracks' = IF isRecording
                 THEN [tracks EXCEPT ![activeTrack] = TrackGetStats(tracks[activeTrack])]
                 ELSE tracks
  /\ workerQueue' =
       IF isRecording /\ GetStatsPosts(tracks[activeTrack])
         THEN [workerQueue EXCEPT ![activeTrack] =
                 Append(@, StatsRequest(tracks[activeTrack]))]
         ELSE workerQueue
  /\ isRecording' = FALSE
  /\ metronome' = metronomeStop(metronome)
  /\ recordingStartFrame' = Null
  /\ audioQueue' =
       (IF isRecording
          THEN Append(audioQueue, UpdateMessage(activeTrack, tracks[activeTrack]))
          ELSE audioQueue) \o StopMessages
  /\ UNCHANGED << currentFrame, nextBlockFrame, params, processors,
                  workerReplies, channels,
                  controllerVars, sheetVars >>

Stop ==
  /\ HasRoom
  /\ IF stopThrows(isRecording, activeTrack)
       THEN /\ lastCall' = Call("stop", TRUE, FALSE)
            /\ UNCHANGED << tracks, isRecording, recordingStartFrame, metronome,
                            audioQueue, workerQueue >>
       ELSE /\ lastCall' = Call("stop", FALSE, FALSE)
            /\ tracks' = IF isRecording
                           THEN [tracks EXCEPT ![activeTrack] =
                                   TrackGetStats(tracks[activeTrack])]
                           ELSE tracks
            /\ workerQueue' =
                 IF isRecording /\ GetStatsPosts(tracks[activeTrack])
                   THEN [workerQueue EXCEPT ![activeTrack] =
                           Append(@, StatsRequest(tracks[activeTrack]))]
                   ELSE workerQueue
            /\ isRecording' = FALSE
            /\ metronome' = metronomeStop(metronome)
            /\ recordingStartFrame' = Null
            /\ audioQueue' =
                 (IF isRecording
                    THEN Append(audioQueue,
                                UpdateMessage(activeTrack, tracks[activeTrack]))
                    ELSE audioQueue) \o StopMessages
  /\ UNCHANGED << currentFrame, nextBlockFrame, activeTrack, params, processors,
                  workerReplies, channels,
                  controllerVars, sheetVars >>

(* ------------------- the audio thread and the workers ------------------ *)

\* the audio thread handles the next message posted to a playback worklet
AudioThread ==
  /\ audioQueue # << >>
  /\ processors' = [processors EXCEPT ![Head(audioQueue).track] =
                      ProcessorHandleMessage(@, Head(audioQueue))]
  /\ audioQueue' = Tail(audioQueue)
  /\ UNCHANGED << currentFrame, nextBlockFrame, tracks, activeTrack, isRecording,
                  recordingStartFrame, metronome, params, workerQueue,
                  workerReplies, channels,
                  controllerVars, sheetVars, lastCall >>

\* the statistics worker of track t answers its next request
Worker(t) ==
  /\ workerQueue[t] # << >>
  /\ workerReplies' = [workerReplies EXCEPT ![t] =
                         Append(@, WorkerReply(Head(workerQueue[t])))]
  /\ workerQueue' = [workerQueue EXCEPT ![t] = Tail(@)]
  /\ UNCHANGED << currentFrame, nextBlockFrame, tracks, activeTrack, isRecording,
                  recordingStartFrame, metronome, params, audioQueue, processors,
                  channels,
                  controllerVars, sheetVars, lastCall >>

\* the reply of track t's worker is handled by the Track
StatsWorkerMessage(t) ==
  /\ workerReplies[t] # << >>
  /\ tracks' = [tracks EXCEPT ![t] =
                  TrackHandleStatsWorkerMessage(@, Head(workerReplies[t]))]
  /\ workerReplies' = [workerReplies EXCEPT ![t] = Tail(@)]
  /\ UNCHANGED << currentFrame, nextBlockFrame, activeTrack, isRecording,
                  recordingStartFrame, metronome, params, audioQueue, processors,
                  workerQueue, channels,
                  controllerVars, sheetVars, lastCall >>

(* --------------------------- specification ----------------------------- *)

\* track numbers a caller may pass to arm
TrackNumbers == 0 .. (NumTracks + 1)

\* start_section, last_section and loop of the play commands tried
PlayArgs == { << NoSection, NoSection, FALSE >>, << "chorus", NoSection, TRUE >>,
              << "bridge", NoSection, FALSE >> }

\* start_section and last_section of the record commands tried
RecordArgs == { << NoSection, NoSection >>, << "verse", "chorus" >>,
                << "chorus", NoSection >>, << "bridge", NoSection >> }

\* seconds of the set_latency_compensation commands tried
LatencyArgs == {0, 1}

Next ==
  \/ Tick
  \/ WorkletMessage
  \/ \E n \in TrackNumbers : Arm(n)
  \/ \E a \in PlayArgs : Play(a[1], a[2], a[3])
  \/ \E a \in RecordArgs : Record(a[1], a[2])
  \/ Stop
  \/ \E s \in LatencyArgs : SetLatencyCompensation(s)
  \/ AudioThread
  \/ \E t \in TrackIds : Worker(t)
  \/ \E t \in TrackIds : StatsWorkerMessage(t)

Spec == Init /\ [][Next]_vars

(* ------------------------ the mixer on its own ------------------------- *)

\* parameters one update_mixer_channel command may carry
MaxGiven == 2

Optional(values) == { << >> } \cup { << v >> : v \in values }

NumGiven(args) == Cardinality({k \in MixerKeys : Given(args[k])})

\* the update_mixer_channel commands tried; channel numbers are 1-based, and
\* 0 and NumTracks + 1 are out of range
MixerArgs ==
  {a \in [channel : 0 .. (NumTracks + 1),
          gainDB : Optional({-6}), levelDB : Optional({3}),
          inputIsMono : Optional({TRUE}), pan : Optional({1}),
          mute : Optional(BOOLEAN), solo : Optional(BOOLEAN)] :
     NumGiven(a) <= MaxGiven}

UpdateMixerChannel(args) ==
  /\ channels' = mixerCallTool(channels, args)
  /\ lastCall' = Call("update_mixer_channel", mixerThrows(channels, args),
                      InvalidChannel(channels, args))
  /\ UNCHANGED << deckVars, controllerVars, sheetVars >>

MixerNext == \E args \in MixerArgs : UpdateMixerChannel(args)

MixerSpec == Init /\ [][MixerNext]_vars

(* --------------------- a MainController on its own --------------------- *)

\* mainController.callTool(toolName, args)
CallTool(toolName) ==
  /\ handlerCalls' = dispatchFrom(toolHandlers, toolName, 1)
  /\ lastCall' = [name |-> "callTool",
                   threw |-> callToolThrows(toolHandlers, toolName),
                   logged |-> callToolLogsError(toolHandlers, toolName),
                   toolName |-> toolName]
  /\ UNCHANGED << deckVars, mixerVars, toolHandlers, sheetVars >>

DispatchInit == EngineInit /\ toolHandlers \in HandlerLists

DispatchNext == \E toolName \in ToolNames : CallTool(toolName)

DispatchSpec == DispatchInit /\ [][DispatchNext]_vars

(* ----------------------- a Saturator on its own ------------------------ *)

\* the arguments of the #createCurve calls tried
MaxPositiveSamples == 10

MaxSlope == 10

\* new Saturator(audioContext), for a curve of positiveSamples and a
\* gainAtZero of slopeAtZero
NewSaturator(positiveSamples, slopeAtZero) ==
  /\ saturatorCurve' = createCurve(positiveSamples, slopeAtZero)
  /\ lastCall' = [name |-> "createCurve", threw |-> FALSE, logged |-> FALSE,
                   positiveSamples |-> positiveSamples, slopeAtZero |-> slopeAtZero]
  /\ UNCHANGED << deckVars, mixerVars, controllerVars, songState, textArea >>

SaturatorNext ==
  \E positiveSamples \in 1 .. MaxPositiveSamples, slopeAtZero \in 1 .. MaxSlope :
    NewSaturator(positiveSamples, slopeAtZero)

SaturatorSpec == Init /\ [][SaturatorNext]_vars

(* ------------------------ one Track on its own ------------------------- *)

\* worker requests one Track may post
MaxRequests == 1

\* the Track driven by the calls below, with its playback worklet and its
\* statistics worker
TheTrack == 0

\* the arguments of the write calls tried: a prefix of a capture block, and a
\* start frame before the buffer, at its start, near its end, at its end and
\* past its end
WriteLengths == {0, BlockLen}

WriteStarts == {-1, 0, BufferLength - 1, BufferLength, BufferLength + 1}

\* the tape intervals of the play calls tried: the whole tape, each section,
\* an interval of no duration and one that ends before it starts
PlayIntervals == { [startTime |-> 0, endTime |-> Null],
                   getSectionsTimeInterval("verse", NoSection),
                   getSectionsTimeInterval("chorus", NoSection),
                   [startTime |-> 1, endTime |-> 1],
                   [startTime |-> 2, endTime |-> 1] }

PortHasRoom == Len(audioQueue) < MaxInFlight

\* track.write(leftData, rightData, startFrame)
TrackWriteCall(n, startFrame) ==
  /\ tracks' = [tracks EXCEPT ![TheTrack] =
                  TrackWrite(@, Subarray(CaptureBlock(0).left, 0, n),
                             Subarray(CaptureBlock(0).right, 0, n), startFrame)]
  /\ lastCall' = [name |-> "write", threw |-> FALSE,
                   logged |-> TrackWriteWarns(Subarray(CaptureBlock(0).left, 0, n),
                                              startFrame),
                   frames |-> n, startFrame |-> startFrame]
  /\ UNCHANGED << currentFrame, nextBlockFrame, activeTrack, isRecording,
                  recordingStartFrame, metronome, params, audioQueue, processors,
                  workerQueue, workerReplies, channels,
                  controllerVars, sheetVars >>

\* track.update()
TrackUpdateCall ==
  /\ PortHasRoom
  /\ audioQueue' = Append(audioQueue, UpdateMessage(TheTrack, tracks[TheTrack]))
  /\ lastCall' = Call("update", FALSE, FALSE)
  /\ UNCHANGED << currentFrame, nextBlockFrame, tracks, activeTrack, isRecording,
                  recordingStartFrame, metronome, params, processors,
                  workerQueue, workerReplies, channels,
                  controllerVars, sheetVars >>

\* track.play(startFrame, tapeStartTime, tapeEndTime, loop)
TrackPlayCall(interval, loop) ==
  /\ PortHasRoom
  /\ params' = [params EXCEPT ![TheTrack] = playParams(interval)]
  /\ audioQueue' = Append(audioQueue, StartMessage(TheTrack, playStartFrame, loop))
  /\ lastCall' = [name |-> "play", threw |-> FALSE, logged |-> FALSE,
                   interval |-> interval, loop |-> loop]
  /\ UNCHANGED << currentFrame, nextBlockFrame, tracks, activeTrack, isRecording,
                  recordingStartFrame, metronome, processors,
                  workerQueue, workerReplies, channels,
                  controllerVars, sheetVars >>

\* track.stop()
TrackStopCall ==
  /\ PortHasRoom
  /\ audioQueue' = Append(audioQueue, StopMessage(TheTrack))
  /\ lastCall' = Call("stop", FALSE, FALSE)
  /\ UNCHANGED << currentFrame, nextBlockFrame, tracks, activeTrack, isRecording,
                  recordingStartFrame, metronome, params, processors,
                  workerQueue, workerReplies, channels,
                  controllerVars, sheetVars >>

\* track.getStats(): what the returned promise carries: the Track's cached
\* statistics when nothing is posted (read off the literal of the first
\* return, or off the Track itself that the second return hands out), and
\* the reply of the worker otherwise
getStatsResult(track) ==
  IF track.statsMinFrame > track.statsMaxFrame
    THEN [from |-> "cache", stats |-> track.stats]
  ELSE IF track.statsMaxFrame - track.statsMinFrame <= 0
    THEN [from |-> "this", stats |-> track.stats]
  ELSE [from |-> "worker", stats |-> WorkerReply(StatsRequest(track)).stats]

\* track.getStats()
TrackGetStatsCall ==
  /\ GetStatsPosts(tracks[TheTrack]) => tracks[TheTrack].requestsPosted < MaxRequests
  /\ tracks' = [tracks EXCEPT ![TheTrack] = TrackGetStats(@)]
  /\ workerQueue' =
       IF GetStatsPosts(tracks[TheTrack])
         THEN [workerQueue EXCEPT ![TheTrack] =
                 Append(@, StatsRequest(tracks[TheTrack]))]
         ELSE workerQueue
  /\ lastCall' = [name |-> "getStats", threw |-> FALSE, logged |-> FALSE,
                   from |-> getStatsResult(tracks[TheTrack]).from]
  /\ UNCHANGED << currentFrame, nextBlockFrame, activeTrack, isRecording,
                  recordingStartFrame, metronome, params, audioQueue, processors,
                  workerReplies, channels,
                  controllerVars, sheetVars >>

TrackNext ==
  \/ \E n \in WriteLengths, k \in WriteStarts : TrackWriteCall(n, k)
  \/ TrackGetStatsCall
  \/ Worker(TheTrack)
  \/ StatsWorkerMessage(TheTrack)

TrackSpec == Init /\ [][TrackNext]_vars

(* ------------------- the song sheet on its own ------------------------- *)

\* the lines of the texts typed into the song sheet
MaxLines == 3

\* the lines tried: a title header (blanks around the title, a leading zero
\* in the tempo, eighths as the unit), two section headers (one whose name is
\* blank), the empty line and a line of text
SongLines ==
  { TitleLine(<< " ", "T", " " >>, << 0, 9 >>, << 3 >>, << 8 >>),
    SectionLine(<< "A" >>, << 4 >>),
    SectionLine(<< " " >>, << 0, 2 >>),
    EmptyLine,
    TextLine(<< "l" >>) }

SongTexts == UNION { [1 .. n -> SongLines] : n \in 1 .. MaxLines }

\* the longest text that is parsed
MaxTextLines == 2 * MaxLines + 2

\* the arguments of the update_song_attributes commands tried
SongAttributeArgs == [bpm : Optional({0, 90}), beats_per_bar : Optional({3})]

\* SongState.callTool('update_song_attributes', args): the SongState after
\* the call (0 is not truthy)
songCallTool(state, args) ==
  LET withBpm == IF args.bpm # << >> /\ args.bpm[1] # 0
                   THEN [state EXCEPT !.bpm = args.bpm[1]] ELSE state
  IN  IF args.beats_per_bar # << >> /\ args.beats_per_bar[1] # 0
        THEN [withBpm EXCEPT !.beatsPerBar = args.beats_per_bar[1]] ELSE withBpm

\* SongUI.#handleTextInput() on an input event that leaves text in the text
\* area; a successful parse dispatches 'song-state-changed', on which
\* #handleStateChange puts the serialized state into the text area
HandleTextInput(text) ==
  /\ Len(text) <= MaxTextLines
  /\ songState' = parse(songState, text).state
  /\ textArea' = IF parse(songState, text).error THEN text
                 ELSE serialize(parse(songState, text).state)
  /\ lastCall' = [name |-> "input", threw |-> FALSE, logged |-> FALSE,
                   error |-> parse(songState, text).error]
  /\ UNCHANGED << deckVars, mixerVars, controllerVars, saturatorCurve >>

\* songState.callTool('update_song_attributes', args); a change dispatches
\* 'song-state-changed'
UpdateSongAttributes(args) ==
  /\ songState' = songCallTool(songState, args)
  /\ textArea' = IF songCallTool(songState, args) # songState
                   THEN serialize(songCallTool(songState, args))
                   ELSE textArea
  /\ lastCall' = Call("update_song_attributes", FALSE, FALSE)
  /\ UNCHANGED << deckVars, mixerVars, controllerVars, saturatorCurve >>

SongNext ==
  \/ \E text \in SongTexts \cup {textArea} : HandleTextInput(text)
  \/ \E args \in SongAttributeArgs : UpdateSongAttributes(args)

SongSpec == Init /\ [][SongNext]_vars

(* ------------- the MainController and its registered handlers ---------- *)

\* the tool names of the schema
SchemaToolNames ==
  {"message", "play", "record", "stop", "arm", "set_metronome_properties",
   "set_latency_compensation", "update_song_attributes", "create_section",
   "update_section", "update_mixer_channel"}

\* the handlers main() registers, in order: tapeDeckEngine, songState, chatUI,
\* mixerEngine and metronomeEngine, each as the tool names its canHandle
\* accepts; ChatInterfaceUI has no canHandle
RegisteredHandlers ==
  << {"arm", "play", "record", "stop", "set_latency_compensation"},
     {"update_song_attributes"},
     NoCanHandle,
     {"update_mixer_channel"},
     {"set_metronome_properties"} >>

\* the handler the loop of callTool calls callTool on: its place in the list,
\* or 0 when it comes to none
reachedHandler(handlers, toolName) ==
  LET calls == dispatchFrom(handlers, toolName, 1)
  IN  IF calls # << >> /\ calls[Len(calls)].method = "callTool"
        THEN calls[Len(calls)].handler
        ELSE 0

\* the arguments of the set_metronome_properties commands tried
MetronomeArgs == [volumeDB : Optional({0})]

\* the arguments tried with a tool; they are looked at by the handler that
\* callTool comes to, so one value stands for all when it comes to none
ToolArgs(toolName) ==
  CASE reachedHandler(RegisteredHandlers, toolName) = 0 -> { << >> }
    [] toolName = "arm" -> TrackNumbers
    [] toolName = "play" -> PlayArgs
    [] toolName = "record" -> RecordArgs
    [] toolName = "set_latency_compensation" -> LatencyArgs
    [] toolName = "update_song_attributes" -> SongAttributeArgs
    [] toolName = "update_mixer_channel" -> MixerArgs
    [] toolName = "set_metronome_properties" -> MetronomeArgs
    [] OTHER -> { << >> }

\* MetronomeEngine.#setVolume(volumeDB): the metronome after the call; the
\* gain is kept in tenths, and 0 dB is the gain 1
metronomeSetVolume(m, volumeDB) ==
  IF volumeDB = << >> THEN m ELSE [m EXCEPT !.gain = 10]

\* TapeDeckEngine.callTool(toolName, args): what it does to the tape deck
TapeDeckCallTool(toolName, args) ==
  CASE toolName = "arm" ->
         /\ activeTrack' = arm(activeTrack, args)
         /\ UNCHANGED << currentFrame, nextBlockFrame, tracks, isRecording,
                         recordingStartFrame, metronome, params, audioQueue,
                         processors, workerQueue, workerReplies >>
    [] toolName = "play" ->
         /\ PlayEffects(args[1], args[2], args[3])
         /\ UNCHANGED << currentFrame, nextBlockFrame, tracks, activeTrack,
                         isRecording, recordingStartFrame, processors,
                         workerQueue, workerReplies >>
    [] toolName = "record" ->
         /\ PlayEffects(args[1], args[2], FALSE)
         /\ recordingStartFrame' = startRecordingFrame
         /\ isRecording' = TRUE
         /\ UNCHANGED << currentFrame, nextBlockFrame, tracks, activeTrack,
                         processors, workerQueue, workerReplies >>
    [] toolName = "stop" ->
         /\ IF stopThrows(isRecording, activeTrack)
              THEN UNCHANGED << tracks, isRecording, recordingStartFrame,
                                metronome, audioQueue, workerQueue >>
              ELSE /\ tracks' = IF isRecording
                                  THEN [tracks EXCEPT ![activeTrack] =
                                          TrackGetStats(tracks[activeTrack])]
                                  ELSE tracks
                   /\ workerQueue' =
                        IF isRecording /\ GetStatsPosts(tracks[activeTrack])
                          THEN [workerQueue EXCEPT ![activeTrack] =
                                  Append(@, StatsRequest(tracks[activeTrack]))]
                          ELSE workerQueue
                   /\ isRecording' = FALSE
                   /\ metronome' = metronomeStop(metronome)
                   /\ recordingStartFrame' = Null
                   /\ audioQueue' =
                        (IF isRecording
                           THEN Append(audioQueue,
                                       UpdateMessage(activeTrack, tracks[activeTrack]))
                           ELSE audioQueue) \o StopMessages
         /\ UNCHANGED << currentFrame, nextBlockFrame, activeTrack, params,
                         processors, workerReplies >>
    [] toolName = "set_latency_compensation" ->
         /\ params' = [t \in TrackIds |->
                         trackSetLatencyCompensation(params[t], args)]
         /\ UNCHANGED << currentFrame, nextBlockFrame, tracks, activeTrack,
                         isRecording, recordingStartFrame, metronome, audioQueue,
                         processors, workerQueue, workerReplies >>

\* mainController.callTool(toolName, args) with the registered handlers: the
\* loop over the handlers, and the callTool of the handler it comes to
ControllerCallTool(toolName, args) ==
  LET reached == reachedHandler(toolHandlers, toolName)
  IN  /\ reached = 1 => HasRoom
      /\ handlerCalls' = dispatchFrom(toolHandlers, toolName, 1)
      /\ IF reached = 1
           THEN TapeDeckCallTool(toolName, args)
           ELSE IF reached = 5
             THEN /\ metronome' = metronomeSetVolume(metronome, args.volumeDB)
                  /\ UNCHANGED << currentFrame, nextBlockFrame, tracks,
                                  activeTrack, isRecording, recordingStartFrame,
                                  params, audioQueue, processors, workerQueue,
                                  workerReplies >>
             ELSE UNCHANGED deckVars
      /\ IF reached = 2
           THEN /\ songState' = songCallTool(songState, args)
                /\ textArea' = IF songCallTool(songState, args) # songState
                                 THEN serialize(songCallTool(songState, args))
                                 ELSE textArea
           ELSE UNCHANGED << songState, textArea >>
      /\ IF reached = 4
           THEN channels' = mixerCallTool(channels, args)
           ELSE UNCHANGED channels
      /\ lastCall' =
           [name |-> "callTool",
            threw |-> \/ callToolThrows(toolHandlers, toolName)
                      \/ (reached = 1 /\ toolName = "stop"
                          /\ stopThrows(isRecording, activeTrack))
                      \/ (reached = 4 /\ mixerThrows(channels, args)),
            logged |-> callToolLogsError(toolHandlers, toolName),
            toolName |-> toolName]
      /\ UNCHANGED << toolHandlers, saturatorCurve >>

ApplicationInit == EngineInit /\ toolHandlers = RegisteredHandlers

ApplicationNext ==
  \/ \E toolName \in SchemaToolNames \cup ToolNames :
       \E args \in ToolArgs(toolName) : ControllerCallTool(toolName, args)
  \/ AudioThread

ApplicationSpec == ApplicationInit /\ [][ApplicationNext]_vars

(* ------------------- the statistics worker on its own ------------------ *)

\* the buffers of the requests tried: left and right of one length, up to
\* MaxStatsLength frames of the samples -1, 0 and 1
MaxStatsLength == 2

StatsBuffers(n) == [1 .. n -> {-1, 0, 1}]

\* worker.postMessage({left, right}) on the worker of TheTrack, one request at
\* a time
PostMessage(left, right) ==
  /\ workerQueue[TheTrack] = << >>
  /\ workerReplies[TheTrack] = << >>
  /\ workerQueue' = [workerQueue EXCEPT ![TheTrack] =
                       << [id |-> 0, left |-> left, right |-> right] >>]
  /\ lastCall' = Call("postMessage", FALSE, FALSE)
  /\ UNCHANGED << currentFrame, nextBlockFrame, tracks, activeTrack, isRecording,
                  recordingStartFrame, metronome, params, audioQueue, processors,
                  workerReplies, channels, controllerVars, sheetVars >>

WorkerNext ==
  \/ \E n \in 0 .. MaxStatsLength :
       \E left \in StatsBuffers(n), right \in StatsBuffers(n) : PostMessage(left, right)
  \/ Worker(TheTrack)
  \/ StatsWorkerMessage(TheTrack)

WorkerSpec == Init /\ [][WorkerNext]_vars

(* ------------- one Track and its playback worklet on their own --------- *)

PlaybackNext ==
  \/ TrackWriteCall(BlockLen, 0)
  \/ TrackUpdateCall
  \/ \E interval \in PlayIntervals, loop \in BOOLEAN : TrackPlayCall(interval, loop)
  \/ TrackStopCall
  \/ AudioThread
  \/ Tick

PlaybackSpec == Init /\ [][PlaybackNext]_vars

(* ============================== claims ================================= *)

\* the absolute frames of the capture block that arrives next
NextBlockFrames == nextBlockFrame .. (nextBlockFrame + BlockLen - 1)

\* a capture block arrives and reaches the write on an existing armed track
BlockWrittenStep ==
  /\ WorkletMessage
  /\ BlockIsWritten(isRecording, recordingStartFrame, CaptureBlock(nextBlockFrame))
  /\ ~NoSuchTrack(activeTrack)

\* C1: while recording, a capture block writes into the armed track exactly
\* its samples at or after recordingStartFrame, each at track frame
\* (absolute frame - recordingStartFrame), and writes nothing else: the
\* trailing part of a block that holds recordingStartFrame lands at offset 0.
C1_SamplesAtFrameMinusStart ==
  [][BlockWrittenStep =>
       \A i \in 1 .. BufferLength :
         LET f == recordingStartFrame + (i - 1)
         IN  IF f \in NextBlockFrames
               THEN /\ tracks'[activeTrack].left[i] = LeftSample(f)
                    /\ tracks'[activeTrack].right[i] = RightSample(f)
               ELSE /\ tracks'[activeTrack].left[i] = tracks[activeTrack].left[i]
                    /\ tracks'[activeTrack].right[i] = tracks[activeTrack].right[i]]_vars

\* the next two capture blocks together straddle recordingStartFrame
NextTwoBlocksStraddle ==
  /\ isRecording
  /\ ~NoSuchTrack(activeTrack)
  /\ nextBlockFrame < recordingStartFrame
  /\ recordingStartFrame < nextBlockFrame + 2 * BlockLen

\* #tracks after the next two capture blocks have been handled one after the other
AfterNextTwoBlocks ==
  handleWorkletMessage(
    handleWorkletMessage(tracks, activeTrack, isRecording, recordingStartFrame,
                         CaptureBlock(nextBlockFrame)),
    activeTrack, isRecording, recordingStartFrame,
    CaptureBlock(nextBlockFrame + BlockLen))

\* the armed track after one write, at offset 0, of the next two blocks
\* concatenated and trimmed to the samples at or after recordingStartFrame
OnePassWrite ==
  LET b1 == CaptureBlock(nextBlockFrame)
      b2 == CaptureBlock(nextBlockFrame + BlockLen)
      trim == recordingStartFrame - nextBlockFrame
  IN  TrackWrite(tracks[activeTrack],
                 Subarray(b1.left \o b2.left, trim, 2 * BlockLen),
                 Subarray(b1.right \o b2.right, trim, 2 * BlockLen), 0)

\* C2: two consecutive capture blocks that together straddle
\* recordingStartFrame leave the armed track's buffer equal to one write, at
\* offset 0, of their concatenation trimmed to the frames from
\* recordingStartFrame on.
C2_TwoBlocksAsOnePass ==
  NextTwoBlocksStraddle =>
    /\ AfterNextTwoBlocks[activeTrack].left = OnePassWrite.left
    /\ AfterNextTwoBlocks[activeTrack].right = OnePassWrite.right

\* C3: a capture block changes the buffer of no track other than the armed
\* one, and of no track at all while recording is inactive.
C3_OnlyArmedTrackWritten ==
  [][WorkletMessage =>
       \A t \in TrackIds :
         (t # activeTrack \/ ~isRecording) => tracks'[t] = tracks[t]]_vars

\* C3 witness: a block has just been written into the armed track during
\* recording, and another track has kept an earlier recording.
C3_Witness ==
  /\ lastCall.name = "block"
  /\ isRecording
  /\ ~NoSuchTrack(activeTrack)
  /\ tracks[activeTrack].left # Silence
  /\ \E t \in TrackIds : t # activeTrack /\ tracks[t].left # Silence

\* whether any channel is soloed
AnySolo == \E c \in ChannelIds : channels[c].solo

\* C4: the mute gate of every channel is 1 for a soloed channel and 0 for
\* the others while any channel is soloed, and otherwise 0 for a muted
\* channel and 1 for the others.
C4_MuteGateResolved ==
  \A c \in ChannelIds :
    channels[c].muteLevel =
      IF AnySolo
        THEN (IF channels[c].solo THEN 1 ELSE 0)
        ELSE (IF channels[c].mute THEN 0 ELSE 1)

\* the values of a channel that a mute or solo change must leave alone
Strip(ch) ==
  [gainDB |-> ch.gainDB, levelDB |-> ch.levelDB, pan |-> ch.pan,
   inputIsMono |-> ch.inputIsMono]

\* the values of a channel that only a command addressed to it may change
Settings(ch) ==
  [gainDB |-> ch.gainDB, levelDB |-> ch.levelDB, pan |-> ch.pan,
   inputIsMono |-> ch.inputIsMono, mute |-> ch.mute, solo |-> ch.solo]

\* C5: in every state, whichever update_mixer_channel command comes next:
\* if it carries only mute or solo it leaves gain, level, pan and mono flag
\* of every channel as they are; it changes no setting of a channel it is
\* not addressed to; and on its own channel every setting it omits stays.
C5_MixerFrame ==
  \A args \in MixerArgs :
    LET after == mixerCallTool(channels, args)
    IN  /\ (\A k \in {"gainDB", "levelDB", "inputIsMono", "pan"} : ~Given(args[k]))
             => \A c \in ChannelIds : Strip(after[c]) = Strip(channels[c])
        /\ \A c \in ChannelIds :
             c # args.channel - 1 => Settings(after[c]) = Settings(channels[c])
        /\ \A c \in ChannelIds, k \in MixerKeys :
             ~Given(args[k]) => after[c][k] = channels[c][k]

\* C5 witness: a command has acted on a mixer in which one channel has its
\* gain, level, pan and mono flag set and another one is soloed and muted.
C5_Witness ==
  /\ lastCall.name = "update_mixer_channel"
  /\ \E c, d \in ChannelIds :
       /\ c # d
       /\ channels[c].gainDB = -6 /\ channels[c].levelDB = 3
       /\ channels[c].pan = 1 /\ channels[c].inputIsMono
       /\ channels[d].solo /\ channels[d].mute

\* C6: in every state, an update_mixer_channel command whose channel number
\* is outside 1..NumTracks is logged, throws nothing and changes no channel.
C6_InvalidChannelNoOp ==
  /\ \A args \in MixerArgs :
       args.channel \notin 1 .. NumTracks =>
         /\ InvalidChannel(channels, args)
         /\ ~mixerThrows(channels, args)
         /\ mixerCallTool(channels, args) = channels
  /\ (lastCall.name = "update_mixer_channel" /\ lastCall.logged) => ~lastCall.threw

\* C6 witness: a command with an invalid channel number has just been logged
\* on a mixer whose channels are no longer in their initial state.
C6_Witness ==
  /\ lastCall.name = "update_mixer_channel"
  /\ lastCall.logged
  /\ ~lastCall.threw
  /\ \E c \in ChannelIds : channels[c].solo /\ channels[c].gainDB = -6

\* C7: arm(trackNumber) sets the armed track to trackNumber - 1 when
\* trackNumber is in 1..NumTracks and leaves it unchanged otherwise.
C7_ArmRangeChecked ==
  [][\A n \in TrackNumbers :
       Arm(n) => activeTrack' = IF n \in 1 .. NumTracks THEN n - 1 ELSE activeTrack]_vars

\* C8: handling a capture block never throws.
C8_BlockNeverThrows == lastCall.name = "block" => ~lastCall.threw

\* what stop() must have done when it returns
StopDone ==
  /\ ~lastCall'.threw
  /\ isRecording' = FALSE
  /\ recordingStartFrame' = Null
  /\ \A t \in TrackIds :
       /\ \E i \in (Len(audioQueue) + 1) .. Len(audioQueue') :
            audioQueue'[i] = StopMessage(t)
       /\ tracks'[t].left = tracks[t].left
       /\ tracks'[t].right = tracks[t].right

\* C9: stop() leaves recording inactive and recordingStartFrame cleared, has
\* told every track to stop and has changed no sample; and a capture block
\* that arrives while recording is inactive changes no track.
C9_StopHaltsCapture ==
  [][/\ Stop => StopDone
     /\ (WorkletMessage /\ ~isRecording) => tracks' = tracks]_vars

\* the state of the scheduler and of its tracks that stop() may change
SchedulerState == << isRecording, recordingStartFrame, activeTrack, tracks, params >>

\* C10: stop() called while nothing is recording throws nothing and leaves
\* the scheduler state, the armed track and all tracks as they were; a
\* stop() that follows a stop() changes none of them either.
C10_StopIdempotent ==
  [][/\ (Stop /\ ~isRecording) =>
          (~lastCall'.threw /\ SchedulerState' = SchedulerState)
     /\ (Stop /\ lastCall.name = "stop") =>
          (SchedulerState' = SchedulerState /\ metronome' = metronome
           /\ lastCall' = lastCall)]_vars

\* C10 witness: stop() has returned normally in a state that only a stop()
\* from Idle can leave: no track is armed that exists, nothing is recorded.
C10_Witness ==
  /\ lastCall.name = "stop"
  /\ ~lastCall.threw
  /\ ~isRecording
  /\ NoSuchTrack(activeTrack)
  /\ \E t \in TrackIds : tracks[t].left # Silence

\* worker requests of track t that are outstanding: posted, and the reply not
\* yet handled by the Track
Outstanding(t) == Len(workerQueue[t]) + Len(workerReplies[t])

\* C11: at no time are two worker requests of one track outstanding, and no
\* step posts a request to the worker of a track that has one outstanding
\* (a getStats call made meanwhile answers from the cache).
C11_StatsSingleFlight ==
  [][\A t \in TrackIds :
       /\ Len(workerQueue'[t]) + Len(workerReplies'[t]) <= 1
       /\ Outstanding(t) > 0 => Len(workerQueue'[t]) <= Len(workerQueue[t])]_vars

\* a section name was given and it does not resolve to a time window
Unresolved(startSection, lastSection) ==
  /\ startSection # NoSection
  /\ getSectionsTimeInterval(startSection, lastSection) = NoInterval

\* C12: play with a section name that does not resolve is logged and changes
\* nothing: no track's playback range, no message to a playback worklet (the
\* start frame and the playhead stay), and the metronome is not started.
C12_PlayUnresolvedNoOp ==
  [][\A a \in PlayArgs :
       (Play(a[1], a[2], a[3]) /\ Unresolved(a[1], a[2])) =>
         /\ lastCall'.logged
         /\ params' = params
         /\ audioQueue' = audioQueue
         /\ processors' = processors
         /\ metronome' = metronome]_vars

\* C13: record with a section name that does not resolve does nothing:
\* recording is not marked active, recordingStartFrame is not set and no
\* playback is started.
C13_RecordUnresolvedNoOp ==
  [][\A a \in RecordArgs :
       (Record(a[1], a[2]) /\ Unresolved(a[1], a[2])) =>
         /\ isRecording' = isRecording
         /\ recordingStartFrame' = recordingStartFrame
         /\ params' = params
         /\ audioQueue' = audioQueue
         /\ metronome' = metronome]_vars

\* C14: record(start, end) posts to every track's playback worklet, in track
\* order, the start message play posts (not looping) and sets every track's
\* playback range as play with the same window does; it marks recording
\* active; and recordingStartFrame is the startFrame of those start messages.
C14_RecordPlaysAndArms ==
  [][\A a \in RecordArgs :
       Record(a[1], a[2]) =>
         /\ Len(audioQueue') = Len(audioQueue) + NumTracks
         /\ \A i \in 1 .. NumTracks :
              /\ audioQueue'[Len(audioQueue) + i].type = "start"
              /\ audioQueue'[Len(audioQueue) + i].track = i - 1
              /\ audioQueue'[Len(audioQueue) + i].loop = FALSE
              /\ audioQueue'[Len(audioQueue) + i].startFrame = playStartFrame
              /\ audioQueue'[Len(audioQueue) + i].startFrame = recordingStartFrame'
         /\ \A t \in TrackIds : params'[t] = playParams(tapeInterval(a[1], a[2]))
         /\ isRecording']_vars

\* C14 witness: record has just acted on a window of sections while a track
\* other than the first is armed: recording is active from the scheduled
\* start and the start messages are in flight.
C14_Witness ==
  /\ lastCall.name = "record"
  /\ ~lastCall.logged
  /\ isRecording
  /\ activeTrack = 1
  /\ recordingStartFrame = currentFrame + LeadFrames
  /\ currentFrame > 0
  /\ params[0] = [loopStart |-> 2, loopDuration |-> 1]
  /\ Len(audioQueue) = NumTracks

\* the 0-based frames of track t's buffer that its playback worklet reads once
\* it holds the buffer: the loop region of process()
PlayedFrames(t) ==
  LET p == [NewProcessor EXCEPT !.leftBuffer = tracks[t].left,
                                !.rightBuffer = tracks[t].right]
  IN  effectiveLoopStart(p, params[t]) .. (effectiveLoopEnd(p, params[t]) - 1)

\* the first capture block after a record command over sections that resolve
\* reaches the write on the armed track
RecordedBlockStep ==
  /\ BlockWrittenStep
  /\ lastCall.name = "record"
  /\ ~lastCall.logged
  /\ params[activeTrack].loopDuration > 0

\* C15: a capture block written after record(sections) puts the sample of
\* absolute frame f at the armed track's frame
\* startTime + (f - recordingStartFrame), within the frames play of those
\* sections reads, and leaves every frame outside that window as it was.
C15_RecordsOverSections ==
  [][RecordedBlockStep =>
       \A i \in 1 .. BufferLength :
         LET f == recordingStartFrame + (i - 1) - params[activeTrack].loopStart
         IN  IF (i - 1) \in PlayedFrames(activeTrack) /\ f \in NextBlockFrames
               THEN /\ tracks'[activeTrack].left[i] = LeftSample(f)
                    /\ tracks'[activeTrack].right[i] = RightSample(f)
               ELSE /\ tracks'[activeTrack].left[i] = tracks[activeTrack].left[i]
                    /\ tracks'[activeTrack].right[i] = tracks[activeTrack].right[i]]_vars

\* a step of play, record, stop or setLatencyCompensation
TransportStep ==
  \/ \E a \in PlayArgs : Play(a[1], a[2], a[3])
  \/ \E a \in RecordArgs : Record(a[1], a[2])
  \/ Stop
  \/ \E s \in LatencyArgs : SetLatencyCompensation(s)

\* C16: play, record, stop and setLatencyCompensation leave the armed track as
\* it is, and whenever the armed track changes the step is an arm.
C16_ArmedTrackPersists ==
  [][/\ TransportStep => activeTrack' = activeTrack
     /\ activeTrack' # activeTrack => \E n \in TrackNumbers : Arm(n)]_vars

\* C16 witness: the second track was armed, recorded on and stopped, and it
\* is still the armed track.
C16_Witness ==
  /\ lastCall.name = "stop"
  /\ ~lastCall.threw
  /\ ~isRecording
  /\ activeTrack = 1
  /\ tracks[1].left # Silence

\* the samples a write call passes
WriteData(n) == Subarray(CaptureBlock(0).left, 0, n)

\* C17: Track.write with a negative startFrame is logged, throws nothing and
\* leaves the Track as it was: sample buffers, dirty region and cached
\* statistics.
C17_NegativeWriteRejected ==
  [][\A n \in WriteLengths, k \in WriteStarts :
       (TrackWriteCall(n, k) /\ k < 0) =>
         /\ tracks'[TheTrack] = tracks[TheTrack]
         /\ lastCall'.logged
         /\ ~lastCall'.threw]_vars

\* C17 witness: a write with a negative startFrame has returned on a Track
\* that holds samples, a dirty region and statistics from its worker.
C17_Witness ==
  /\ lastCall.name = "write"
  /\ lastCall.startFrame < 0
  /\ tracks[TheTrack].left # Silence
  /\ tracks[TheTrack].statsMinFrame < tracks[TheTrack].statsMaxFrame
  /\ tracks[TheTrack].stats # InitialStats

\* C18: Track.write whose span passes the end of the buffer throws nothing and
\* keeps the buffer's length; frame i at or after startFrame gets sample
\* i - startFrame of the data, every other frame stays; nothing is copied when
\* startFrame is at or past the end.
C18_WriteTruncates ==
  [][\A n \in WriteLengths, k \in WriteStarts :
       (TrackWriteCall(n, k) /\ k >= 0 /\ k + n > BufferLength) =>
         /\ ~lastCall'.threw
         /\ Len(tracks'[TheTrack].left) = BufferLength
         /\ Len(tracks'[TheTrack].right) = BufferLength
         /\ \A i \in 1 .. BufferLength :
              IF i - 1 >= k
                THEN /\ tracks'[TheTrack].left[i] = CaptureBlock(0).left[i - k]
                     /\ tracks'[TheTrack].right[i] = CaptureBlock(0).right[i - k]
                ELSE /\ tracks'[TheTrack].left[i] = tracks[TheTrack].left[i]
                     /\ tracks'[TheTrack].right[i] = tracks[TheTrack].right[i]]_vars

\* C18 witness: a write that starts one frame before the end of the buffer
\* has put its first sample there, and the samples written earlier are kept.
C18_Witness ==
  /\ lastCall.name = "write"
  /\ lastCall.startFrame = BufferLength - 1
  /\ lastCall.frames = BlockLen
  /\ tracks[TheTrack].left[BufferLength] = WriteData(BlockLen)[1]
  /\ tracks[TheTrack].left[1] = WriteData(BlockLen)[1]
  /\ tracks[TheTrack].left[2] = WriteData(BlockLen)[2]

\* the dirty region [statsMinFrame, statsMaxFrame) of a Track holds no frame
DirtyRegionEmpty(track) == track.statsMinFrame >= track.statsMaxFrame

\* C19: getStats on a Track whose dirty region is empty carries the cached
\* statistics, posts no request to the worker and leaves the Track as it was.
C19_GetStatsEmptyRegion ==
  [][(TrackGetStatsCall /\ DirtyRegionEmpty(tracks[TheTrack])) =>
       /\ getStatsResult(tracks[TheTrack]).from # "worker"
       /\ getStatsResult(tracks[TheTrack]).stats = tracks[TheTrack].stats
       /\ workerQueue' = workerQueue
       /\ tracks' = tracks]_vars

\* C19 witness: getStats has answered from the cache on a Track that holds
\* samples and statistics from its worker.
C19_Witness ==
  /\ lastCall.name = "getStats"
  /\ lastCall.from = "cache"
  /\ DirtyRegionEmpty(tracks[TheTrack])
  /\ tracks[TheTrack].left # Silence
  /\ tracks[TheTrack].stats # InitialStats
  /\ workerQueue[TheTrack] = << >>

\* track.stop() was the last call on the Track and the playback worklet has
\* handled every message posted to it
StopHandled == lastCall.name = "stop" /\ audioQueue = << >>

\* C20: track.stop() changes no sample of the Track's buffer, and once the
\* playback worklet has handled the stop, and until the next play, a rendered
\* quantum carries no sample of the buffer: it is silent.
C20_StopSilencesOutput ==
  [][/\ TrackStopCall => tracks' = tracks
     /\ (Tick /\ StopHandled) =>
          processOutput(processors[TheTrack], params[TheTrack], currentFrame)
            = [i \in 1 .. BlockLen |-> 0]]_vars

\* C21: after setLatencyCompensation(seconds) every track's playback node
\* holds a latencyCompensation parameter equal to seconds.
C21_LatencyAppliedToAllTracks ==
  [][\A s \in LatencyArgs :
       SetLatencyCompensation(s) =>
         \A t \in TrackIds :
           /\ "latencyCompensation" \in DOMAIN params'[t]
           /\ params'[t].latencyCompensation = s]_vars

\* the handlers of toolHandlers that accept toolName
Accepting(toolName) == {i \in 1 .. Len(toolHandlers) : toolName \in toolHandlers[i]}

\* the first handler that accepts toolName, when one does
FirstAccepting(toolName) ==
  CHOOSE i \in Accepting(toolName) : \A j \in Accepting(toolName) : i <= j

\* the handlers whose method was called by the last callTool, in call order
CalledOn(method) ==
  SelectSeq(handlerCalls, LAMBDA c : c.method = method)

C23_WriteSpanAndOffset ==
  [][BlockWrittenStep =>
       LET block == CaptureBlock(nextBlockFrame)
           spanStart == Max(0, recordingStartFrame - nextBlockFrame)
           offset == Max(0, nextBlockFrame - recordingStartFrame)
                     + Max(0, recordingStartFrame - nextBlockFrame)
       IN  \A i \in 1 .. BufferLength :
             IF i - 1 >= offset /\ i - 1 < offset + (BlockLen - spanStart)
               THEN /\ tracks'[activeTrack].left[i]
                         = block.left[spanStart + (i - 1 - offset) + 1]
                    /\ tracks'[activeTrack].right[i]
                         = block.right[spanStart + (i - 1 - offset) + 1]
               ELSE /\ tracks'[activeTrack].left[i] = tracks[activeTrack].left[i]
                    /\ tracks'[activeTrack].right[i] = tracks[activeTrack].right[i]]_vars

\* C23 witness: a block in which the recording begins has been written: its
\* second sample stands at track frame 1, and track frame 0 is silent.
C23_Witness ==
  /\ lastCall.name = "block"
  /\ isRecording
  /\ ~NoSuchTrack(activeTrack)
  /\ nextBlockFrame - BlockLen < recordingStartFrame
  /\ recordingStartFrame < nextBlockFrame
  /\ tracks[activeTrack].left[2] = LeftSample(recordingStartFrame)
  /\ tracks[activeTrack].left[1] = 0

\* C24: a capture block that ends before recordingStartFrame changes no track:
\* no buffer, no dirty region, no statistic; and it posts nothing to a
\* statistics worker.
C24_EarlyBlockDiscarded ==
  [][(/\ WorkletMessage
      /\ isRecording
      /\ nextBlockFrame + BlockLen < recordingStartFrame) =>
       /\ tracks' = tracks
       /\ workerQueue' = workerQueue
       /\ ~lastCall'.threw]_vars

\* C24 witness: during a recording on a track that holds an earlier take, a
\* block that ended before recordingStartFrame has been handled.
C24_Witness ==
  /\ lastCall.name = "block"
  /\ isRecording
  /\ ~NoSuchTrack(activeTrack)
  /\ nextBlockFrame < recordingStartFrame
  /\ tracks[activeTrack].left # Silence

\* C25: play gives every track and the metronome one common startFrame, the
\* current frame plus the fixed lead, and gives every track the same range
\* and the same loop flag.
C25_CommonStartFrame ==
  [][\A a \in PlayArgs :
       Play(a[1], a[2], a[3]) =>
         /\ Len(audioQueue') = Len(audioQueue) + NumTracks
         /\ \A i \in 1 .. NumTracks :
              /\ audioQueue'[Len(audioQueue) + i].type = "start"
              /\ audioQueue'[Len(audioQueue) + i].track = i - 1
              /\ audioQueue'[Len(audioQueue) + i].startFrame = currentFrame + LeadFrames
              /\ audioQueue'[Len(audioQueue) + i].loop = a[3]
         /\ \A t, u \in TrackIds : params'[t] = params'[u]
         /\ metronome'.startFrame = currentFrame + LeadFrames]_vars

\* track.play(...) was the last call on the Track, its playback worklet has
\* handled every message posted to it, and it holds a buffer
PlayHandled ==
  /\ lastCall.name = "play"
  /\ audioQueue = << >>
  /\ Len(processors[TheTrack].leftBuffer) > 0

\* the range of the last play has a duration, or no end
RangeHasDuration ==
  \/ lastCall.interval.endTime = Null
  \/ lastCall.interval.endTime - lastCall.interval.startTime > 0

\* C26: after play with start frame S, the quantum rendered next carries
\* silence at every frame before S, and at frame S + n the sample for
\* playhead n, the buffer's frame rangeStart + n, as long as n is within the
\* range; whether or not S is the first frame of a quantum.
C26_EmitsFromStartFrame ==
  [][(Tick /\ PlayHandled /\ RangeHasDuration) =>
       LET p == processors[TheTrack]
           rangeStart == effectiveLoopStart(p, params[TheTrack])
           duration == effectiveLoopDuration(p, params[TheTrack])
           out == processOutput(p, params[TheTrack], currentFrame)
       IN  \A i \in 1 .. BlockLen :
             LET n == currentFrame + (i - 1) - p.startFrame
             IN  /\ n < 0 => out[i] = 0
                 /\ (n >= 0 /\ n < duration) => out[i] = p.leftBuffer[rangeStart + n + 1]]_vars

\* C27: while playback is active, output frame i of the next quantum reads
\* buffer frame rangeStart + (playhead mod (rangeEnd - rangeStart)) when
\* looping and rangeStart + playhead clamped to rangeEnd otherwise, and
\* rendering a quantum advances the playhead by one per frame.
C27_LoopOrClamp ==
  [][(PlayHandled /\ processRenders(processors[TheTrack], params[TheTrack], currentFrame)) =>
       LET p == processors[TheTrack]
           rangeStart == effectiveLoopStart(p, params[TheTrack])
           rangeEnd == effectiveLoopEnd(p, params[TheTrack])
       IN  /\ \A i \in 0 .. (BlockLen - 1) :
                bufferFrameIndex(p, params[TheTrack], i) =
                  IF lastCall.loop
                    THEN rangeStart + ((p.playheadFrame + i) % (rangeEnd - rangeStart))
                    ELSE Min(rangeStart + p.playheadFrame + i, rangeEnd)
           /\ Tick => processors'[TheTrack].playheadFrame = p.playheadFrame + BlockLen]_vars

\* C28: when the range of the last play has an end and no duration (zero or
\* negative), the playback worklet renders nothing.
C28_EmptyRangeSilent ==
  (PlayHandled /\ ~RangeHasDuration) =>
    ~processRenders(processors[TheTrack], params[TheTrack], currentFrame)

\* C29: a dirty region that holds a frame lies within the buffer.
C29_DirtyRegionWithinBuffer ==
  \A t \in TrackIds :
    tracks[t].statsMinFrame < tracks[t].statsMaxFrame =>
      /\ 0 <= tracks[t].statsMinFrame
      /\ tracks[t].statsMaxFrame <= BufferLength

\* the frames [statsMinFrame, statsMaxFrame) of a channel of a Track, as far
\* as the buffer reaches
DirtySpan(track, channel) ==
  [k \in 1 .. (Min(track.statsMaxFrame, BufferLength) - track.statsMinFrame) |->
     channel[track.statsMinFrame + k]]

\* a step in which track t posts a request to its statistics worker
PostsRequest(t) == Len(workerQueue'[t]) > Len(workerQueue[t])

\* C30: a getStats that posts a request hands the worker the samples of the
\* dirty span as the buffer holds them at the call and leaves the dirty region
\* empty; and when the reply to a request arrives, the promise resolved is the
\* one getStats returned for that request, and the cached statistics become
\* those of the reply.
C30_StatsOfDirtySpan ==
  [][\A t \in TrackIds :
       /\ PostsRequest(t) =>
            /\ workerQueue'[t][Len(workerQueue'[t])].left
                 = DirtySpan(tracks[t], tracks[t].left)
            /\ workerQueue'[t][Len(workerQueue'[t])].right
                 = DirtySpan(tracks[t], tracks[t].right)
            /\ DirtyRegionEmpty(tracks'[t])
       /\ StatsWorkerMessage(t) =>
            /\ tracks[t].statsPromiseResolver = Head(workerReplies[t]).id
            /\ tracks'[t].stats = Head(workerReplies[t]).stats]_vars

\* the mute and solo flags of every channel
Flags(chs) == [c \in DOMAIN chs |-> << chs[c].mute, chs[c].solo >>]

\* the mute gate of every channel
Gates(chs) == [c \in DOMAIN chs |-> chs[c].muteLevel]

\* the mute gate that goes with a channel's mute flag, its solo flag and
\* whether any channel is soloed, in every state the mixer reaches
GateOfFlags(mute, solo, anySolo) ==
  IF anySolo THEN (IF solo THEN 0 ELSE 1) ELSE (IF mute THEN 0 ELSE 1)

\* the update_mixer_channel commands that set one flag, mute or solo, of one
\* channel and nothing else
FlagArgs ==
  {a \in [channel : 1 .. NumTracks,
          gainDB : { << >> }, levelDB : { << >> }, inputIsMono : { << >> },
          pan : { << >> }, mute : Optional(BOOLEAN), solo : Optional(BOOLEAN)] :
     NumGiven(a) = 1}

\* C31: the mute gates depend on the mute and solo flags only: in every state
\* each channel's gate is one fixed function of its mute flag, its solo flag
\* and whether any channel is soloed; and two commands applied in either order
\* that end with the same flags end with the same gates.
C31_GatesDependOnFlagsOnly ==
  /\ \A c \in ChannelIds :
       channels[c].muteLevel = GateOfFlags(channels[c].mute, channels[c].solo, AnySolo)
  /\ \A a, b \in FlagArgs :
       LET ab == mixerCallTool(mixerCallTool(channels, a), b)
           ba == mixerCallTool(mixerCallTool(channels, b), a)
       IN  Flags(ab) = Flags(ba) => Gates(ab) = Gates(ba)

\* C31 witness: a command has acted on a mixer in which a channel that was
\* muted is open again, one channel is muted and soloed and another is
\* neither.
C31_Witness ==
  /\ lastCall.name = "update_mixer_channel"
  /\ ~lastCall.logged
  /\ channels[0].mute /\ channels[0].solo
  /\ ~channels[1].mute /\ ~channels[1].solo
  /\ channels[0].muteLevel = 0
  /\ channels[1].muteLevel = 1

\* C32: the curve made for positiveSamples has 2 * positiveSamples + 1 points,
\* the first for input -1 and the last for input 1; it is odd-symmetric,
\* curve[i] = -curve[size - 1 - i] for every index i; and its midpoint is 0.
C32_CurveOddSymmetric ==
  lastCall.name = "createCurve" =>
    LET size == Len(saturatorCurve)
    IN  /\ size = 2 * lastCall.positiveSamples + 1
        /\ saturatorCurve[1] = tanh(0 - lastCall.slopeAtZero, 1)
        /\ saturatorCurve[size] = tanh(lastCall.slopeAtZero, 1)
        /\ \A i \in 0 .. (size - 1) :
             saturatorCurve[i + 1] = 0 - saturatorCurve[(size - 1 - i) + 1]
        /\ saturatorCurve[lastCall.positiveSamples + 1] = 0

\* C32 witness: a curve of more than three points has been made whose points
\* are not all at the ends of the range: it rises strictly from the midpoint.
C32_Witness ==
  /\ lastCall.name = "createCurve"
  /\ lastCall.positiveSamples = 3
  /\ Len(saturatorCurve) = 7
  /\ saturatorCurve[4] = 0
  /\ saturatorCurve[5] > 0
  /\ saturatorCurve[5] < saturatorCurve[6]
  /\ saturatorCurve[6] < saturatorCurve[7]
  /\ saturatorCurve[3] = 0 - saturatorCurve[5]

\* every sample of the buffer is 0
AllZero(buffer) == \A i \in 1 .. Len(buffer) : buffer[i] = 0

\* C33: linearToDb is -120 for every amplitude a <= 0 and 0 for amplitude 1;
\* and the message the worker posts for a request whose left and right
\* buffers are all zero reports -120 for the RMS and the peak of both
\* channels.
C33_SilenceIsMinus120 ==
  /\ \A a \in (0 - 2 * AmplitudeUnit) .. 0 : linearToDb(a) = -120
  /\ linearToDb(AmplitudeUnit) = 0
  /\ \A t \in TrackIds :
       \A k \in 1 .. Len(workerQueue[t]) :
         (AllZero(workerQueue[t][k].left) /\ AllZero(workerQueue[t][k].right)) =>
           LET message == WorkerReply(workerQueue[t][k]).message
           IN  /\ message.rmsLeftDb = -120
               /\ message.peakLeftDb = -120
               /\ message.rmsRightDb = -120
               /\ message.peakRightDb = -120

\* C33 witness: the worker has answered a request of two silent frames on
\* either channel, and its message reports -120 four times.
C33_Witness ==
  /\ workerReplies[0] # << >>
  /\ Head(workerReplies[0]).stats.n = 2
  /\ Head(workerReplies[0]).stats.sumSqLeft = 0
  /\ Head(workerReplies[0]).stats.sumSqRight = 0
  /\ Head(workerReplies[0]).message =
       [rmsLeftDb |-> -120, peakLeftDb |-> -120,
        rmsRightDb |-> -120, peakRightDb |-> -120]

\* a step of startRecording()
RecordStep == lastCall'.name = "record" /\ \E a \in RecordArgs : Record(a[1], a[2])

\* a step of a stop() that returns
StopReturns == lastCall'.name = "stop" /\ ~lastCall'.threw /\ Stop

C35_EveryPromiseResolves ==
  [][\A t \in TrackIds :
       (/\ tracks[t].statsPromiseResolver # Null
        /\ tracks'[t].statsPromiseResolver # tracks[t].statsPromiseResolver) =>
         /\ workerReplies[t] # << >>
         /\ Head(workerReplies[t]).id = tracks[t].statsPromiseResolver
         /\ tracks'[t].stats = Head(workerReplies[t]).stats
         /\ tracks'[t].statsPromiseResolver = Null]_vars

\* C36: whenever nothing is being recorded and every message posted to the
\* playback worklets has been handled, the buffers of the playback processor
\* of every track that holds a recording equal that track's recorded buffers.
C36_ProcessorsHoldRecording ==
  (~isRecording /\ audioQueue = << >>) =>
    \A t \in TrackIds :
      (tracks[t].left # Silence \/ tracks[t].right # Silence) =>
        /\ processors[t].leftBuffer = tracks[t].left
        /\ processors[t].rightBuffer = tracks[t].right

\* the capture block delivered next holds no frame at or after
\* recordingStartFrame
BlockBeforeStart ==
  /\ isRecording
  /\ recordingStartFrame # Null
  /\ nextBlockFrame + BlockLen <= recordingStartFrame

\* C37: a capture block that holds no frame at or after recordingStartFrame,
\* also one that ends exactly at recordingStartFrame, leaves the armed track's
\* buffers and dirty region as they were, so that a getStats which carried the
\* cached statistics before the block still carries them after it.
C37_BlockBeforeStartLeavesTrack ==
  [][(/\ lastCall'.name = "block"
      /\ BlockBeforeStart
      /\ ~NoSuchTrack(activeTrack)
      /\ WorkletMessage) =>
       /\ tracks'[activeTrack].left = tracks[activeTrack].left
       /\ tracks'[activeTrack].right = tracks[activeTrack].right
       /\ tracks'[activeTrack].statsMinFrame = tracks[activeTrack].statsMinFrame
       /\ tracks'[activeTrack].statsMaxFrame = tracks[activeTrack].statsMaxFrame
       /\ getStatsResult(tracks[activeTrack]).from = "cache" =>
            getStatsResult(tracks'[activeTrack]).from = "cache"]_vars

\* C39: for every state a successful parse has reached, parsing the
\* serialized state succeeds and restores the same title, bpm, beats per bar
\* and sections (names, bar counts and bodies).
C39_ParseSerializeRoundTrip ==
  (lastCall.name = "input" /\ ~lastCall.error) =>
    /\ ~parse(songState, serialize(songState)).error
    /\ parse(songState, serialize(songState)).state = songState

\* the registered handlers that accept toolName
RegisteredAccepting(toolName) ==
  {i \in 1 .. Len(toolHandlers) :
     toolHandlers[i] # NoCanHandle /\ toolName \in toolHandlers[i]}

\* C38: every tool name of the schema is accepted by exactly one registered
\* handler, and a callTool on it has ended, without an error thrown or
\* logged, with the callTool of that handler.
C38_EverySchemaToolHandled ==
  /\ \A toolName \in SchemaToolNames : Cardinality(RegisteredAccepting(toolName)) = 1
  /\ (lastCall.name = "callTool" /\ lastCall.toolName \in SchemaToolNames) =>
       /\ ~lastCall.threw
       /\ ~lastCall.logged
       /\ handlerCalls # << >>
       /\ handlerCalls[Len(handlerCalls)].method = "callTool"
       /\ handlerCalls[Len(handlerCalls)].handler \in RegisteredAccepting(lastCall.toolName)

====
